---- MODULE Spec2Model ----
(***************************************************************************)
(* A model of wwwroot/canvas.js: the shared render state (_state), the     *)
(* asynchronous loaders, disposeBackground, render and the line wrapper    *)
(* wrapLines.                                                              *)
(*                                                                         *)
(* Text is a sequence of one-character strings.  Normalised coordinates    *)
(* are JavaScript numbers: a record [k, v] with k one of "num", "nan",     *)
(* "inf", "ninf", "undef" and v the value in thousandths when k = "num".   *)
(***************************************************************************)
EXTENDS Integers, Sequences, FiniteSets, TLC

VARIABLES
    _state,      \* _state
    canvas,     \* the canvas elements of the document: id -> [width, height]
    urlKind,    \* URL.createObjectURL calls in order: url n was created for urlKind[n]
    revokeLog,  \* URL.revokeObjectURL calls in order
    docFonts,   \* document.fonts
    pending,    \* the loader calls suspended at their await
    stored,     \* history: the successful background loads in completion order
    bgRun,      \* history: whether only sequential successful loads touched the background
    fontHist,   \* history: the font registered last by each font loader, and not cleared
    last,       \* the latest handler step: what was called and what it gave the caller
    wtext, wmeas, wmax, wlines, wpc   \* one call of wrapLines: inputs, result, position

varsRes == <<_state, canvas, urlKind, revokeLog, docFonts, pending, stored, bgRun,
             fontHist, last>>

varsWrap == <<wtext, wmeas, wmax, wlines, wpc>>

vars == <<varsRes, varsWrap>>

----------------------------------------------------------------------------
(* Bounds on the inputs of the line wrapper.                                       *)

MaxLen == 4

MaxWidth == 3

(* The characters texts are made of: two glyphs of different width, a     *)
(* space, a line feed and a carriage return.                               *)
Chars == {"a", "W", " ", "\n", "\r"}

Texts == UNION {[1..n -> Chars] : n \in 0..MaxLen}

(* A measurer stands for ctx.measureText under one font: every glyph has  *)
(* an advance, scaled by the font size, and the pair "a","W" may be        *)
(* kerned.                                                                 *)
Measurers == {[scale |-> 1, kern |-> 0], [scale |-> 2, kern |-> 0],
              [scale |-> 2, kern |-> 1], [scale |-> 1, kern |-> 1]}

----------------------------------------------------------------------------
(* String primitives of the platform.                                      *)

(* \s of the regular expression and the white space trimStart/trimEnd     *)
(* remove.                                                                 *)
IsSpace(ch) == ch \in {" ", "\n", "\r"}

RECURSIVE TrimStart(_)
TrimStart(s) ==
    IF s # <<>> /\ IsSpace(Head(s)) THEN TrimStart(Tail(s)) ELSE s

RECURSIVE TrimEnd(_)
TrimEnd(s) ==
    IF s # <<>> /\ IsSpace(s[Len(s)]) THEN TrimEnd(SubSeq(s, 1, Len(s) - 1)) ELSE s

Advance(ch) == IF ch = "W" THEN 2 ELSE 1

RECURSIVE SumAdvance(_)
SumAdvance(s) == IF s = <<>> THEN 0 ELSE Advance(Head(s)) + SumAdvance(Tail(s))

KernPairs(s) == Cardinality({i \in 1..(Len(s) - 1) : s[i] = "a" /\ s[i + 1] = "W"})

(* ctx.measureText(s).width *)
MeasureText(m, s) == m.scale * SumAdvance(s) - m.kern * KernPairs(s)

(* text.replace(/\r\n/g, "\n") *)
RECURSIVE ReplaceCrLf(_)
ReplaceCrLf(t) ==
    IF t = <<>> THEN <<>>
    ELSE IF Len(t) >= 2 /\ t[1] = "\r" /\ t[2] = "\n"
         THEN <<"\n">> \o ReplaceCrLf(SubSeq(t, 3, Len(t)))
         ELSE <<Head(t)>> \o ReplaceCrLf(Tail(t))

(* t.split("\n"): the pieces between line feeds; "" gives one empty piece *)
RECURSIVE SplitNlFrom(_, _, _)
SplitNlFrom(t, cur, acc) ==
    IF t = <<>> THEN Append(acc, cur)
    ELSE IF Head(t) = "\n" THEN SplitNlFrom(Tail(t), <<>>, Append(acc, cur))
         ELSE SplitNlFrom(Tail(t), Append(cur, Head(t)), acc)

SplitNl(t) == SplitNlFrom(t, <<>>, <<>>)

(* paragraph.split(/(\s+)/): runs of non-space and of space alternate,    *)
(* the first and the last piece being non-space runs (possibly empty)     *)
RECURSIVE SplitWordsFrom(_, _, _, _)
SplitWordsFrom(t, cur, curIsSpace, acc) ==
    IF t = <<>>
    THEN IF curIsSpace THEN Append(Append(acc, cur), <<>>) ELSE Append(acc, cur)
    ELSE IF IsSpace(Head(t)) = curIsSpace
         THEN SplitWordsFrom(Tail(t), Append(cur, Head(t)), curIsSpace, acc)
         ELSE SplitWordsFrom(Tail(t), <<Head(t)>>, ~curIsSpace, Append(acc, cur))

SplitWords(p) == SplitWordsFrom(p, <<>>, FALSE, <<>>)

----------------------------------------------------------------------------
(* wrapLines                                                               *)

(* The word loop of one paragraph: words still to place, the line being   *)
(* built, the lines committed so far.                                      *)
RECURSIVE WordLoop(_, _, _, _, _)
WordLoop(m, maxWidth, words, line, lines) ==
    IF words = <<>>
    THEN IF Len(line) > 0 THEN Append(lines, TrimEnd(line)) ELSE lines
    ELSE LET w == Head(words)
             test == line \o w
         IN IF MeasureText(m, test) <= maxWidth \/ Len(line) = 0
            THEN WordLoop(m, maxWidth, Tail(words), test, lines)
            ELSE WordLoop(m, maxWidth, Tail(words), TrimStart(w),
                          Append(lines, TrimEnd(line)))

(* The body of the paragraph loop: the lines one paragraph adds.           *)
ParagraphLines(m, maxWidth, paragraph) ==
    IF Len(paragraph) = 0 THEN << <<" ">> >>
    ELSE WordLoop(m, maxWidth, SplitWords(paragraph), <<>>, <<>>)

RECURSIVE ParagraphLoop(_, _, _)
ParagraphLoop(m, maxWidth, raw) ==
    IF raw = <<>> THEN <<>>
    ELSE ParagraphLines(m, maxWidth, Head(raw)) \o ParagraphLoop(m, maxWidth, Tail(raw))

(* The character loop of the fallback pass over one over-wide line.        *)
RECURSIVE CharLoop(_, _, _, _, _)
CharLoop(m, maxWidth, chars, buf, fixed) ==
    IF chars = <<>>
    THEN IF Len(buf) > 0 THEN Append(fixed, buf) ELSE fixed
    ELSE LET ch == Head(chars)
             test == Append(buf, ch)
         IN IF MeasureText(m, test) <= maxWidth \/ Len(buf) = 0
            THEN CharLoop(m, maxWidth, Tail(chars), test, fixed)
            ELSE CharLoop(m, maxWidth, Tail(chars), <<ch>>, Append(fixed, buf))

FallbackKeepLine(m, maxWidth, l) == <<l>>

(* The body of the fallback loop: what one first-pass line becomes.        *)
FallbackLine(m, maxWidth, l) ==
    IF MeasureText(m, l) <= maxWidth THEN <<l>>
    ELSE CharLoop(m, maxWidth, l, <<>>, <<>>)

RECURSIVE FallbackLoop(_, _, _)
FallbackLoop(m, maxWidth, lines) ==
    IF lines = <<>> THEN <<>>
    ELSE FallbackLine(m, maxWidth, Head(lines)) \o FallbackLoop(m, maxWidth, Tail(lines))

(* fixed.map(l => (l === "" ? " " : l)) *)
BlankToSpace(fixed) == [i \in 1..Len(fixed) |-> IF fixed[i] = <<>> THEN <<" ">> ELSE fixed[i]]

wrapLines(m, text, maxWidth) ==
    LET raw == SplitNl(ReplaceCrLf(text))
        lines == ParagraphLoop(m, maxWidth, raw)
        fixed == FallbackLoop(m, maxWidth, lines)
    IN BlankToSpace(fixed)

----------------------------------------------------------------------------
(* JavaScript values.                                                      *)

Num(v) == [k |-> "num", v |-> v]

NaN == [k |-> "nan", v |-> 0]

PosInf == [k |-> "inf", v |-> 0]

NegInf == [k |-> "ninf", v |-> 0]

Undefined == [k |-> "undef", v |-> 0]

(* a ?? d: d only when a is null or undefined *)
Nullish(a, d) == IF a.k = "undef" THEN d ELSE a

(* a + c and a - c for a finite number c: undefined converts to NaN, NaN   *)
(* and the infinities absorb                                               *)
Plus(a, c) ==
    IF a.k = "num" THEN Num(a.v + c) ELSE IF a.k = "undef" THEN NaN ELSE a

Minus(a, c) == Plus(a, 0 - c)

(* Math.max(lo, x) for a finite number x *)
MathMax(lo, x) == IF x.v > lo THEN x.v ELSE lo

(* a || b on numbers *)
JsOr(a, b) == IF a # 0 THEN a ELSE b

(* clamp01, on thousandths *)
clamp01(v) ==
    IF v.k # "num" THEN Num(0)
    ELSE Num(IF v.v < 0 THEN 0 ELSE IF v.v > 1000 THEN 1000 ELSE v.v)

(* lerp(a, b, t) for t in thousandths: the result in thousandths *)
lerp(a, b, t) == a * 1000 + (b - a) * t.v

(* Math.round of a non-negative number given in thousandths *)
MathRound(x) == (x + 500) \div 1000

----------------------------------------------------------------------------
(* _state and the objects it holds.                                        *)

(* null, for an object URL *)
NoUrl == 0

NullFamily == "null"

(* An HTMLImageElement: the blob URL or the location it was loaded from,   *)
(* and its natural size.                                                   *)
NullImg ==
    [blob |-> NoUrl, href |-> "", naturalWidth |-> 0, naturalHeight |-> 0,
     width |-> 0, height |-> 0]

(* new Image() once loaded from src: an element with no width or height   *)
(* attribute reports its natural size as its width and height.             *)
LoadedImage(blob, href, size) ==
    [blob |-> blob, href |-> href, naturalWidth |-> size.width,
     naturalHeight |-> size.height, width |-> size.width, height |-> size.height]

InitialState ==
    [bgImg |-> NullImg, bgObjectUrl |-> NoUrl, fontFamily |-> NullFamily,
     fontLoaded |-> FALSE, customFontFamily |-> NullFamily, separatorImg |-> NullImg]

CanvasIds == {"c1", "c2"}

(* canvas ids the host may pass: those of the document and one of no element *)
AnyCanvasId == CanvasIds \cup {"missing"}

(* The size of a canvas element nothing has set. *)
DefaultCanvas == [width |-> 300, height |-> 150]

(* The image inputs: two images the platform decodes, one it rejects.      *)
ImageBytes == {"A", "B", "bad"}

DecodeOk(bytes) == bytes # "bad"

NaturalSize(bytes) ==
    IF bytes = "A" THEN [width |-> 30, height |-> 20]
    ELSE IF bytes = "B" THEN [width |-> 20, height |-> 40]
    ELSE [width |-> 0, height |-> 0]

SeparatorUrls == {"img/line.png", "img/none.png"}

CustomFamilies == {"Custom1", "Custom2"}

FontBytes == {"ttf", "junk"}

BundledFamilies == {"Bundled"}

BundledUrls == {"fonts/bundled.ttf", "fonts/none.ttf"}

(* Whether the platform loads what a suspended call waits for. *)
Loads(c) ==
    IF c.op = "setBackgroundImageFromBytes" THEN DecodeOk(c.bytes)
    ELSE IF c.op = "loadFontFromBytes" THEN c.bytes = "ttf"
    ELSE IF c.op = "loadBundledFont" THEN c.bytes = "fonts/bundled.ttf"
    ELSE c.bytes = "img/line.png"

revokeNothing(log, url) == log

(* revokeObjectUrl(url), on the log of URL.revokeObjectURL calls *)
revokeObjectUrl(log, url) == IF url # NoUrl THEN Append(log, url) ELSE log

Range(f) == {f[i] : i \in DOMAIN f}

----------------------------------------------------------------------------
(* render                                                                  *)

DrawWidth == 552

DrawHeight == 8

NoFont == [weight |-> 0, size |-> 0, family |-> ""]

NoShadow == [color |-> "", offset |-> 0]

(* One call on the 2D context, with the style it is drawn under.           *)
ClearRect(w, h) ==
    [op |-> "clearRect", img |-> NullImg, text |-> <<>>, x |-> 0, y |-> 0, w |-> w,
     h |-> h, font |-> NoFont, shadow |-> NoShadow, x01 |-> Num(0), y01 |-> Num(0)]

DrawImage(img, x, y, w, h, shadow, x01, y01) ==
    [op |-> "drawImage", img |-> img, text |-> <<>>, x |-> x, y |-> y, w |-> w,
     h |-> h, font |-> NoFont, shadow |-> shadow, x01 |-> x01, y01 |-> y01]

FillText(text, x, y, font, shadow, x01, y01) ==
    [op |-> "fillText", img |-> NullImg, text |-> text, x |-> x, y |-> y, w |-> 0,
     h |-> 0, font |-> font, shadow |-> shadow, x01 |-> x01, y01 |-> y01]

RenderFamilyNoFallback(st, o) ==
    IF o.useCustomFont THEN st.customFontFamily
    ELSE IF st.fontFamily # NullFamily THEN st.fontFamily ELSE "sans-serif"

(* The font family render selects. *)
RenderFamily(st, o) ==
    IF o.useCustomFont /\ st.customFontFamily # NullFamily THEN st.customFontFamily
    ELSE IF st.fontFamily # NullFamily THEN st.fontFamily ELSE "sans-serif"

(* applyShadow *)
applyShadow(o) ==
    IF ~o.withShadow THEN [color |-> "transparent", offset |-> 0]
    ELSE [color |-> "rgba(0,0,0,0.75)",
          offset |-> MathMax(0, Nullish(o.shadowOffsetPx, Num(2)))]

(* The normalised anchor of the separator image, lines 264-265. *)
BarAnchor(o) ==
    [x01 |-> clamp01(Nullish(Minus(o.nameX01, 250), Num(200))),
     y01 |-> clamp01(Nullish(Plus(o.nameY01, 25), Num(800)))]

(* The normalised anchor of the name, lines 239-240. *)
NameAnchor(o) ==
    [x01 |-> clamp01(Nullish(o.nameX01, Num(200))),
     y01 |-> clamp01(Nullish(o.nameY01, Num(800)))]

NameOps(st, cw, ch, o) ==
    IF ~o.showName THEN <<>>
    ELSE LET nameSize == MathMax(10, Nullish(o.nameFontSize, Num(56)))
             a == NameAnchor(o)
             nameX == MathRound(lerp(0, cw, a.x01))
             nameY == MathRound(lerp(0, ch, a.y01))
         IN <<FillText(o.characterName, nameX, nameY,
                       [weight |-> 700, size |-> nameSize, family |-> RenderFamily(st, o)],
                       applyShadow(o), a.x01, a.y01)>>

SeparatorOps(st, cw, ch, o) ==
    IF ~(o.showLine /\ st.separatorImg # NullImg) THEN <<>>
    ELSE LET a == BarAnchor(o)
             barX == MathRound(lerp(0, cw, a.x01))
             barY == MathRound(lerp(0, ch, a.y01))
         IN <<DrawImage(st.separatorImg, barX, barY, DrawWidth, DrawHeight,
                        [color |-> "transparent", offset |-> 0], a.x01, a.y01)>>

BodyOps(st, cw, ch, o) ==
    LET bodySize == MathMax(10, Nullish(o.bodyFontSize, Num(50)))
        font == [weight |-> 700, size |-> bodySize, family |-> RenderFamily(st, o)]
        lines == wrapLines([scale |-> bodySize, kern |-> 0], o.bodyText, cw)
        bodyX01 == clamp01(Nullish(o.bodyX01, Num(200)))
        bodyY01 == clamp01(Nullish(o.bodyY01, Num(800)))
        bodyAnchorX == MathRound(lerp(0, cw, bodyX01))
        bodyAnchorY == MathRound(lerp(0, ch, bodyY01))
        lineHeight == (bodySize * 115 + 50) \div 100
    IN [i \in 1..Len(lines) |->
           FillText(lines[i], bodyAnchorX, bodyAnchorY + (i - 1) * lineHeight, font,
                    applyShadow(o), bodyX01, bodyY01)]

BlankRenderNoClear(cw, ch) == [result |-> "ok", ops |-> <<>>]

(* render with no background image, lines 192-195 *)
BlankRender(cw, ch) == [result |-> "ok", ops |-> <<ClearRect(cw, ch)>>]

(* What render gives: the error it throws, if any, and its calls on the    *)
(* context.                                                                *)
render_Result(st, cv, canvasId, hasContext, o) ==
    IF canvasId \notin DOMAIN cv THEN [result |-> "canvas not found", ops |-> <<>>]
    ELSE IF ~hasContext THEN [result |-> "2d context not available", ops |-> <<>>]
    ELSE LET cw == cv[canvasId].width
             ch == cv[canvasId].height
         IN IF st.bgImg = NullImg
            THEN BlankRender(cw, ch)
            ELSE [result |-> "ok",
                  ops |-> <<ClearRect(cw, ch),
                            DrawImage(st.bgImg, 0, 0, cw, ch, NoShadow, Num(0), Num(0))>>
                          \o NameOps(st, cw, ch, o) \o SeparatorOps(st, cw, ch, o)
                          \o BodyOps(st, cw, ch, o)]

(* An options object with every field missing. *)
NoOptions ==
    [characterName |-> <<>>, bodyText |-> <<>>, nameFontSize |-> Undefined,
     bodyFontSize |-> Undefined, showName |-> FALSE, showLine |-> FALSE,
     withShadow |-> FALSE, shadowOffsetPx |-> Undefined, useCustomFont |-> FALSE,
     nameX01 |-> Undefined, nameY01 |-> Undefined, bodyX01 |-> Undefined,
     bodyY01 |-> Undefined]
----------------------------------------------------------------------------
(* Bounds on the loader calls.                                             *)

MaxUrls == 2

MaxPending == 2

----------------------------------------------------------------------------
(* The handlers.  An async loader is two steps: the call up to its await,  *)
(* and the continuation or the rejection when the platform answers.        *)

Call(op, canvasId, url, bytes, family, peers) ==
    [op |-> op, canvas |-> canvasId, url |-> url, bytes |-> bytes, family |-> family,
     peers |-> peers]

(* What a handler step gave its caller. *)
Outcome(op, result) ==
    [op |-> op, result |-> result, surface |-> "", ctx |-> FALSE, opts |-> NoOptions,
     ops |-> <<>>, rep |-> 0]

Impure == [pure |-> FALSE, surface |-> ""]

BgCalls == {c \in pending : c.op = "setBackgroundImageFromBytes"}

CanStart(needsUrl) ==
    /\ Cardinality(pending) < MaxPending
    /\ needsUrl => Len(urlKind) < MaxUrls

AwaitStateEager(st, c) ==
    IF c.op = "loadFontFromBytes" THEN [st EXCEPT !.customFontFamily = c.family]
    ELSE IF c.op = "loadBundledFont" THEN [st EXCEPT !.fontFamily = c.family]
    ELSE st

(* _state when a loader reaches its await, and when its await rejects: no  *)
(* assignment comes before the await.                                      *)
AwaitState(st, c) == st

Init ==
    /\ _state = InitialState
    /\ canvas = [id \in CanvasIds |-> DefaultCanvas]
    /\ urlKind = <<>>
    /\ revokeLog = <<>>
    /\ docFonts = {}
    /\ pending = {}
    /\ stored = <<>>
    /\ bgRun = [pure |-> TRUE, surface |-> ""]
    /\ fontHist = [custom |-> NullFamily, bundled |-> NullFamily]
    /\ last = Outcome("load", "ok")
    /\ wtext = <<>>
    /\ wmeas = [scale |-> 1, kern |-> 0]
    /\ wmax = 1
    /\ wlines = <<>>
    /\ wpc = "idle"

(* ---- setBackgroundImageFromBytes ---- *)

setBackgroundImageFromBytes_NotFound(canvasId) ==
    /\ canvasId \notin DOMAIN canvas
    /\ last' = Outcome("setBackgroundImageFromBytes", "canvas not found")
    /\ bgRun' = Impure
    /\ UNCHANGED <<_state, canvas, urlKind, revokeLog, docFonts, pending, stored,
                   fontHist, varsWrap>>

setBackgroundImageFromBytes_Await(canvasId, bytes) ==
    LET url == Len(urlKind) + 1
        c == Call("setBackgroundImageFromBytes", canvasId, url, bytes, NullFamily,
                  {b.url : b \in BgCalls})
    IN /\ canvasId \in DOMAIN canvas
       /\ CanStart(TRUE)
       /\ urlKind' = Append(urlKind, "bg")
       /\ pending' = {IF b \in BgCalls THEN [b EXCEPT !.peers = @ \cup {url}] ELSE b
                         : b \in pending} \cup {c}
       /\ _state' = AwaitState(_state, c)
       /\ bgRun' = IF bgRun.pure /\ BgCalls = {} /\ bgRun.surface \in {"", canvasId}
                   THEN [pure |-> TRUE, surface |-> canvasId] ELSE Impure
       /\ UNCHANGED <<canvas, revokeLog, docFonts, stored, fontHist, last, varsWrap>>

setBackgroundImageFromBytes_StateKept(st, c) == st

(* lines 66-67 *)
setBackgroundImageFromBytes_State(st, c) ==
    [st EXCEPT !.bgObjectUrl = c.url,
               !.bgImg = LoadedImage(c.url, "", NaturalSize(c.bytes))]

setBackgroundImageFromBytes_Resume(c) ==
    /\ c \in BgCalls
    /\ Loads(c)
    /\ revokeLog' = revokeObjectUrl(revokeLog, _state.bgObjectUrl)
    /\ _state' = setBackgroundImageFromBytes_State(_state, c)
    /\ LET img == LoadedImage(c.url, "", NaturalSize(c.bytes))
       IN canvas' = [canvas EXCEPT ![c.canvas] =
                        [width |-> JsOr(img.naturalWidth, img.width),
                         height |-> JsOr(img.naturalHeight, img.height)]]
    /\ pending' = pending \ {c}
    /\ stored' = Append(stored, [url |-> c.url, bytes |-> c.bytes, peers |-> c.peers])
    /\ last' = Outcome(c.op, "ok")
    /\ UNCHANGED <<urlKind, docFonts, bgRun, fontHist, varsWrap>>

setBackgroundImageFromBytes_Reject(c) ==
    /\ c \in BgCalls
    /\ ~Loads(c)
    /\ _state' = AwaitState(_state, c)
    /\ pending' = pending \ {c}
    /\ bgRun' = Impure
    /\ last' = Outcome(c.op, "failed to load image")
    /\ UNCHANGED <<canvas, urlKind, revokeLog, docFonts, stored, fontHist, varsWrap>>

(* ---- loadFontFromBytes ---- *)

loadFontFromBytes_Await(fontBytes, familyName) ==
    LET c == Call("loadFontFromBytes", "", Len(urlKind) + 1, fontBytes, familyName, {})
    IN /\ CanStart(TRUE)
       /\ urlKind' = Append(urlKind, "font")
       /\ pending' = pending \cup {c}
       /\ _state' = AwaitState(_state, c)
       /\ UNCHANGED <<canvas, revokeLog, docFonts, stored, bgRun, fontHist, last,
                      varsWrap>>

loadFontFromBytes_Resume(c) ==
    /\ c \in pending
    /\ c.op = "loadFontFromBytes"
    /\ Loads(c)
    /\ docFonts' = docFonts \cup {c.family}
    /\ _state' = [_state EXCEPT !.customFontFamily = c.family]
    /\ revokeLog' = revokeObjectUrl(revokeLog, c.url)
    /\ pending' = pending \ {c}
    /\ fontHist' = [fontHist EXCEPT !.custom = c.family]
    /\ last' = Outcome(c.op, "ok")
    /\ UNCHANGED <<canvas, urlKind, stored, bgRun, varsWrap>>

loadFontFromBytes_Reject(c) ==
    /\ c \in pending
    /\ c.op = "loadFontFromBytes"
    /\ ~Loads(c)
    /\ _state' = AwaitState(_state, c)
    /\ pending' = pending \ {c}
    /\ last' = Outcome(c.op, "font load rejected")
    /\ UNCHANGED <<canvas, urlKind, revokeLog, docFonts, stored, bgRun, fontHist,
                   varsWrap>>

(* ---- loadBundledFont ---- *)

loadBundledFont_Await(family, url) ==
    LET c == Call("loadBundledFont", "", NoUrl, url, family, {})
    IN /\ CanStart(FALSE)
       /\ c \notin pending
       /\ pending' = pending \cup {c}
       /\ _state' = AwaitState(_state, c)
       /\ UNCHANGED <<canvas, urlKind, revokeLog, docFonts, stored, bgRun, fontHist,
                      last, varsWrap>>

loadBundledFont_Resume(c) ==
    /\ c \in pending
    /\ c.op = "loadBundledFont"
    /\ Loads(c)
    /\ docFonts' = docFonts \cup {c.family}
    /\ _state' = [_state EXCEPT !.fontFamily = c.family, !.fontLoaded = TRUE]
    /\ pending' = pending \ {c}
    /\ fontHist' = [fontHist EXCEPT !.bundled = c.family]
    /\ last' = Outcome(c.op, "ok")
    /\ UNCHANGED <<canvas, urlKind, revokeLog, stored, bgRun, varsWrap>>

loadBundledFont_Reject(c) ==
    /\ c \in pending
    /\ c.op = "loadBundledFont"
    /\ ~Loads(c)
    /\ _state' = AwaitState(_state, c)
    /\ pending' = pending \ {c}
    /\ last' = Outcome(c.op, "font load rejected")
    /\ UNCHANGED <<canvas, urlKind, revokeLog, docFonts, stored, bgRun, fontHist,
                   varsWrap>>

(* ---- clearCustomFont ---- *)

clearCustomFont_StateKept(st) == st

clearCustomFont_State(st) == [st EXCEPT !.customFontFamily = NullFamily]

clearCustomFont ==
    /\ _state' = clearCustomFont_State(_state)
    /\ fontHist' = [fontHist EXCEPT !.custom = NullFamily]
    /\ last' = Outcome("clearCustomFont", "ok")
    /\ UNCHANGED <<canvas, urlKind, revokeLog, docFonts, pending, stored, bgRun,
                   varsWrap>>

(* ---- loadSeparatorImage ---- *)

loadSeparatorImage_Await(url) ==
    LET c == Call("loadSeparatorImage", "", NoUrl, url, NullFamily, {})
    IN /\ CanStart(FALSE)
       /\ c \notin pending
       /\ pending' = pending \cup {c}
       /\ _state' = AwaitState(_state, c)
       /\ UNCHANGED <<canvas, urlKind, revokeLog, docFonts, stored, bgRun, fontHist,
                      last, varsWrap>>

loadSeparatorImage_Resume(c) ==
    /\ c \in pending
    /\ c.op = "loadSeparatorImage"
    /\ Loads(c)
    /\ _state' = [_state EXCEPT !.separatorImg =
                    LoadedImage(NoUrl, c.bytes, [width |-> 552, height |-> 8])]
    /\ pending' = pending \ {c}
    /\ last' = Outcome(c.op, "ok")
    /\ UNCHANGED <<canvas, urlKind, revokeLog, docFonts, stored, bgRun, fontHist,
                   varsWrap>>

loadSeparatorImage_Reject(c) ==
    /\ c \in pending
    /\ c.op = "loadSeparatorImage"
    /\ ~Loads(c)
    /\ _state' = AwaitState(_state, c)
    /\ pending' = pending \ {c}
    /\ last' = Outcome(c.op, "failed to load separator image")
    /\ UNCHANGED <<canvas, urlKind, revokeLog, docFonts, stored, bgRun, fontHist,
                   varsWrap>>

(* ---- disposeBackground ---- *)

disposeBackground_StateKeepsUrl(st) == [st EXCEPT !.bgImg = NullImg]

(* lines 325-326 *)
disposeBackground_State(st) == [st EXCEPT !.bgObjectUrl = NoUrl, !.bgImg = NullImg]

disposeBackground ==
    /\ revokeLog' = revokeObjectUrl(revokeLog, _state.bgObjectUrl)
    /\ _state' = disposeBackground_State(_state)
    /\ bgRun' = Impure
    /\ last' = [Outcome("disposeBackground", "ok") EXCEPT
                   !.rep = IF last.op = "disposeBackground" THEN 2 ELSE 1]
    /\ UNCHANGED <<canvas, urlKind, docFonts, pending, stored, fontHist, varsWrap>>

(* ---- render ---- *)

render(canvasId, hasContext, o) ==
    LET r == render_Result(_state, canvas, canvasId, hasContext, o)
    IN /\ last' = [op |-> "render", result |-> r.result, surface |-> canvasId,
                   ctx |-> hasContext, opts |-> o, ops |-> r.ops, rep |-> 0]
       /\ UNCHANGED <<_state, canvas, urlKind, revokeLog, docFonts, pending, stored,
                      bgRun, fontHist, varsWrap>>

----------------------------------------------------------------------------
(* The line wrapper applied to every text, measurer and width within the   *)
(* bounds.                                                                 *)

InitWrap ==
    /\ _state = InitialState
    /\ canvas = [id \in CanvasIds |-> DefaultCanvas]
    /\ urlKind = <<>>
    /\ revokeLog = <<>>
    /\ docFonts = {}
    /\ pending = {}
    /\ stored = <<>>
    /\ bgRun = [pure |-> TRUE, surface |-> ""]
    /\ fontHist = [custom |-> NullFamily, bundled |-> NullFamily]
    /\ last = Outcome("load", "ok")
    /\ wtext \in Texts
    /\ wmeas \in Measurers
    /\ wmax \in 1..MaxWidth
    /\ wlines = <<>>
    /\ wpc = "call"

Wrap ==
    /\ wpc = "call"
    /\ wlines' = wrapLines(wmeas, wtext, wmax)
    /\ wpc' = "done"
    /\ UNCHANGED <<wtext, wmeas, wmax, varsRes>>

NextWrap == Wrap

SpecWrap == InitWrap /\ [][NextWrap]_vars

----------------------------------------------------------------------------
(* The background handlers with render.  The font and separator loaders    *)
(* neither read nor write what these handlers touch and are left to the    *)
(* specification below.                                                    *)

(* The options render is called with: none set, and every draw asked for. *)
FullOptions ==
    [NoOptions EXCEPT !.showName = TRUE, !.showLine = TRUE, !.withShadow = TRUE,
                      !.characterName = <<"W">>,
                      !.bodyText = <<"a", "W", " ", "a", "a">>]

BgRenderOptions == {NoOptions, FullOptions}

NextBg ==
    \/ \E id \in AnyCanvasId : setBackgroundImageFromBytes_NotFound(id)
    \/ \E id \in AnyCanvasId, bytes \in ImageBytes : setBackgroundImageFromBytes_Await(id, bytes)
    \/ \E c \in pending : setBackgroundImageFromBytes_Resume(c)
    \/ \E c \in pending : setBackgroundImageFromBytes_Reject(c)
    \/ disposeBackground
    \/ \E id \in AnyCanvasId, hc \in BOOLEAN, o \in BgRenderOptions : render(id, hc, o)

SpecBg == Init /\ [][NextBg]_vars

----------------------------------------------------------------------------
(* Every handler that writes _state: the four loaders, clearCustomFont and *)
(* disposeBackground, on one surface.                                      *)

Next ==
    \/ setBackgroundImageFromBytes_NotFound("missing")
    \/ \E bytes \in {"A", "bad"} : setBackgroundImageFromBytes_Await("c1", bytes)
    \/ \E c \in pending : setBackgroundImageFromBytes_Resume(c)
    \/ \E c \in pending : setBackgroundImageFromBytes_Reject(c)
    \/ \E b \in FontBytes, f \in CustomFamilies : loadFontFromBytes_Await(b, f)
    \/ \E c \in pending : loadFontFromBytes_Resume(c)
    \/ \E c \in pending : loadFontFromBytes_Reject(c)
    \/ \E f \in BundledFamilies, u \in BundledUrls : loadBundledFont_Await(f, u)
    \/ \E c \in pending : loadBundledFont_Resume(c)
    \/ \E c \in pending : loadBundledFont_Reject(c)
    \/ clearCustomFont
    \/ \E u \in SeparatorUrls : loadSeparatorImage_Await(u)
    \/ \E c \in pending : loadSeparatorImage_Resume(c)
    \/ \E c \in pending : loadSeparatorImage_Reject(c)
    \/ disposeBackground

Spec == Init /\ [][Next]_vars

----------------------------------------------------------------------------
(* The font handlers with render on a surface that has a background.       *)

FontRenderOptions == {[FullOptions EXCEPT !.useCustomFont = u] : u \in BOOLEAN}

NextFont ==
    \/ setBackgroundImageFromBytes_Await("c1", "A")
    \/ \E c \in pending : setBackgroundImageFromBytes_Resume(c)
    \/ \E b \in FontBytes, f \in CustomFamilies : loadFontFromBytes_Await(b, f)
    \/ \E c \in pending : loadFontFromBytes_Resume(c)
    \/ \E c \in pending : loadFontFromBytes_Reject(c)
    \/ \E f \in BundledFamilies, u \in BundledUrls : loadBundledFont_Await(f, u)
    \/ \E c \in pending : loadBundledFont_Resume(c)
    \/ \E c \in pending : loadBundledFont_Reject(c)
    \/ clearCustomFont
    \/ \E o \in FontRenderOptions : render("c1", TRUE, o)

SpecFont == Init /\ [][NextFont]_vars

----------------------------------------------------------------------------
(* render with a background and the separator image loaded, over the       *)
(* values a name anchor can be given.                                      *)

Coordinates ==
    {Undefined, NaN, PosInf, Num(0 - 500), Num(200), Num(500), Num(1000), Num(1700)}

AnchorOptions ==
    {[NoOptions EXCEPT !.showLine = TRUE, !.showName = n, !.characterName = <<"W">>,
                       !.nameX01 = x, !.nameY01 = y]
        : n \in BOOLEAN, x \in Coordinates, y \in Coordinates}

NextAnchor ==
    \/ setBackgroundImageFromBytes_Await("c1", "A")
    \/ \E c \in pending : setBackgroundImageFromBytes_Resume(c)
    \/ loadSeparatorImage_Await("img/line.png")
    \/ \E c \in pending : loadSeparatorImage_Resume(c)
    \/ \E o \in AnchorOptions : render("c1", TRUE, o)

SpecAnchor == Init /\ [][NextAnchor]_vars

----------------------------------------------------------------------------
(* Properties of the background handlers.                                  *)

IsBgUrl(u) == urlKind[u] = "bg"

Revoked == Range(revokeLog)

(* The object URLs created for a background image and not revoked. *)
LiveBgUrls == {u \in 1..Len(urlKind) : IsBgUrl(u) /\ u \notin Revoked}

(* The background URLs released, in order. *)
BgRevoked == SelectSeq(revokeLog, IsBgUrl)

(* C3: at every point at most one background object URL is live, and when *)
(* a new URL is stored in bgObjectUrl the one stored before it has been    *)
(* revoked.                                                                *)
OneLiveBackgroundHandle ==
    /\ Cardinality(LiveBgUrls) <= 1
    /\ \A i \in 1..(Len(stored) - 1) : stored[i].url \in Revoked

(* The successful loads i < j of stored were in flight at the same time.   *)
Raced(i, j) == i < j /\ stored[i].url \in stored[j].peers

(* The latest handler step completed a background load. *)
JustLoaded ==
    /\ last.op = "setBackgroundImageFromBytes"
    /\ last.result = "ok"
    /\ Len(stored) > 0

LatestIsStored ==
    LET s == stored[Len(stored)]
    IN /\ _state.bgObjectUrl = s.url
       /\ _state.bgImg = LoadedImage(s.url, "", NaturalSize(s.bytes))

(* C4 as stated: of two loads in flight together that both decode, the    *)
(* one completing last leaves its image and URL in _state, and the URL of  *)
(* the other is never released.                                            *)
RaceLoserNeverReleased ==
    \A j \in 1..Len(stored) : \A i \in 1..Len(stored) :
        Raced(i, j) =>
            /\ stored[i].url \notin Revoked
            /\ (j = Len(stored) /\ JustLoaded) => LatestIsStored

(* C4 as amended: of two loads in flight together that both decode, the   *)
(* one completing last leaves its image and URL in _state, and the URL of  *)
(* the other has been released by then.                                    *)
RaceLoserReleased ==
    \A j \in 1..Len(stored) : \A i \in 1..Len(stored) :
        Raced(i, j) =>
            /\ stored[i].url \in Revoked
            /\ (j = Len(stored) /\ JustLoaded) => LatestIsStored

RaceHappened ==
    /\ JustLoaded
    /\ \E i \in 1..Len(stored) : Raced(i, Len(stored))
    /\ BgCalls = {}

(* C6: after n >= 1 successful loads on one surface, one after the other  *)
(* from the empty state, the releases are those of the URLs of the first   *)
(* n-1 loads, in order, and the surface has the natural size of the last   *)
(* image.                                                                  *)
SequentialLoadsReleasePrevious ==
    (bgRun.pure /\ Len(stored) >= 1) =>
        LET n == Len(stored)
        IN /\ BgRevoked = [i \in 1..(n - 1) |-> stored[i].url]
           /\ _state.bgObjectUrl = stored[n].url
           /\ canvas[bgRun.surface] = NaturalSize(stored[n].bytes)

TwoSequentialLoads ==
    /\ bgRun.pure
    /\ BgCalls = {}
    /\ Len(stored) = 2
    /\ stored[1].bytes = "A"
    /\ stored[2].bytes = "B"

(* The latest handler step was render on an existing surface, with no     *)
(* background image loaded.                                                *)
RenderedWithoutBackground ==
    /\ last.op = "render"
    /\ last.surface \in DOMAIN canvas
    /\ _state.bgImg = NullImg

OnlyCleared ==
    /\ last.result = "ok"
    /\ last.ops = <<ClearRect(canvas[last.surface].width, canvas[last.surface].height)>>

(* C8 as stated: render on an existing surface with no background image   *)
(* loaded clears the surface, draws nothing and throws nothing, whatever   *)
(* the options.                                                            *)
BlankRenderNeverThrows == RenderedWithoutBackground => OnlyCleared

(* C8 as amended: render on an existing surface whose 2D context can be   *)
(* obtained, with no background image loaded, clears the surface, draws    *)
(* nothing and throws nothing, whatever the options.                       *)
BlankRenderWithContext == (RenderedWithoutBackground /\ last.ctx) => OnlyCleared

BlankRenderAfterDispose ==
    /\ RenderedWithoutBackground
    /\ last.ctx
    /\ last.opts = FullOptions
    /\ Len(stored) >= 1

(* C9: disposeBackground leaves bgImg and bgObjectUrl unset and the other *)
(* fields as they were, throws nothing and releases at most one URL; a     *)
(* second call right after it changes nothing and releases nothing.        *)
DisposeTwiceAsOnce ==
    [][last'.op = "disposeBackground" =>
          /\ last'.result = "ok"
          /\ _state' = [_state EXCEPT !.bgObjectUrl = NoUrl, !.bgImg = NullImg]
          /\ canvas' = canvas
          /\ Len(revokeLog') <= Len(revokeLog) + 1
          /\ \A i, j \in 1..Len(revokeLog') : revokeLog'[i] = revokeLog'[j] => i = j
          /\ last.op = "disposeBackground" => (_state' = _state /\ revokeLog' = revokeLog)]_vars

DisposedTwice ==
    /\ last.op = "disposeBackground"
    /\ last.rep = 2
    /\ Len(revokeLog) >= 1
    /\ pending # {}

----------------------------------------------------------------------------
(* Properties of the loaders.                                              *)

SameCall(b, c) ==
    /\ b.op = c.op
    /\ b.canvas = c.canvas
    /\ b.url = c.url
    /\ b.bytes = c.bytes
    /\ b.family = c.family

(* In this step the suspended call c resumes: it returns or it rejects. *)
Completes(c) == c \in pending /\ ~\E b \in pending' : SameCall(b, c)

(* In this step a loader call reaches its await. *)
Starts == \E b \in pending' : ~\E c \in pending : SameCall(b, c)

Rejected(r) == r \notin {"ok"}

(* C5: a loader call that fails, because the surface is not found or       *)
(* because the platform rejects what it loads, gives its caller the error  *)
(* and none of its steps changes a field of _state or the size of a        *)
(* surface.                                                                *)
FailedLoadLeavesState ==
    [][/\ Starts => (_state' = _state /\ canvas' = canvas)
       /\ \A c \in pending :
             (Completes(c) /\ ~Loads(c)) =>
                 /\ last'.op = c.op
                 /\ Rejected(last'.result)
                 /\ _state' = _state
                 /\ canvas' = canvas
       /\ (last'.result = "canvas not found" /\ ~Starts) =>
             (_state' = _state /\ canvas' = canvas /\ pending' = pending)]_vars

FailedLoadsKeptOldValues ==
    /\ last.op = "loadFontFromBytes"
    /\ Rejected(last.result)
    /\ _state.customFontFamily = "Custom1"
    /\ _state.fontFamily # NullFamily
    /\ _state.separatorImg # NullImg

(* The family of the custom font registered now, of the bundled font       *)
(* otherwise, of the generic font otherwise.                               *)
RegisteredFamily(o) ==
    IF o.useCustomFont /\ fontHist.custom # NullFamily THEN fontHist.custom
    ELSE IF fontHist.bundled # NullFamily THEN fontHist.bundled
    ELSE "sans-serif"

Drew == last.op = "render" /\ last.result = "ok" /\ _state.bgImg # NullImg

(* C7: every text render draws is in the custom family when useCustomFont *)
(* is set and a custom font has been loaded and not cleared since, in the  *)
(* bundled family otherwise when one was loaded, in "sans-serif"           *)
(* otherwise.                                                              *)
RenderUsesRegisteredFont ==
    Drew =>
        /\ \E k \in 1..Len(last.ops) : last.ops[k].op = "fillText"
        /\ \A k \in 1..Len(last.ops) :
              last.ops[k].op = "fillText" =>
                  last.ops[k].font.family = RegisteredFamily(last.opts)

RenderedAfterClear ==
    /\ Drew
    /\ last.opts.useCustomFont
    /\ docFonts \cap CustomFamilies # {}
    /\ fontHist.custom = NullFamily
    /\ fontHist.bundled # NullFamily

----------------------------------------------------------------------------
(* Properties of render's separator.                                       *)

IsSeparatorOp(d) == d.op = "drawImage" /\ d.img = _state.separatorImg /\ d.img # NullImg

(* C10: when render draws the separator its normalised anchor is           *)
(* (clamp01(nx - 0.25), clamp01(ny + 0.025)) for the name anchor (nx, ny)  *)
(* render resolves from the same options: nameX01 and nameY01 clamped to   *)
(* [0,1], 0.20 and 0.80 when missing.                                      *)
SeparatorFollowsNameAnchor ==
    (last.op = "render" /\ last.result = "ok") =>
        \A k \in 1..Len(last.ops) :
            IsSeparatorOp(last.ops[k]) =>
                LET n == NameAnchor(last.opts)
                IN /\ last.ops[k].x01 = clamp01(Minus(n.x01, 250))
                   /\ last.ops[k].y01 = clamp01(Plus(n.y01, 25))

----------------------------------------------------------------------------
(* Properties of wrapLines.                                                *)

(* C1: every line wrapLines returns measures at most maxWidth or is one   *)
(* character; no over-wide line has more than one character.               *)
LinesFitOrSingleChar ==
    wpc = "done" =>
        \A i \in 1..Len(wlines) :
            MeasureText(wmeas, wlines[i]) <= wmax \/ Len(wlines[i]) = 1

WrappedByCharacters ==
    /\ wpc = "done"
    /\ \A i \in 1..Len(wtext) : ~IsSpace(wtext[i])
    /\ Len(wlines) >= 2
    /\ \E i \in 1..Len(wlines) : MeasureText(wmeas, wlines[i]) > wmax

NotSpace(ch) == ~IsSpace(ch)

NonSpace(s) == SelectSeq(s, NotSpace)

RECURSIVE Concat(_)
Concat(ss) == IF ss = <<>> THEN <<>> ELSE Head(ss) \o Concat(Tail(ss))

(* The lines g are what one paragraph p may give. *)
GroupOf(g, p) ==
    IF NonSpace(p) = <<>> THEN g = << <<" ">> >>
    ELSE /\ Len(g) >= 1
         /\ \A i \in 1..Len(g) : NonSpace(g[i]) # <<>>
         /\ NonSpace(Concat(g)) = NonSpace(p)

(* The lines split into one group per paragraph, in order. *)
RECURSIVE GroupsOf(_, _)
GroupsOf(lines, paragraphs) ==
    IF paragraphs = <<>> THEN lines = <<>>
    ELSE \E n \in 1..Len(lines) :
            /\ GroupOf(SubSeq(lines, 1, n), Head(paragraphs))
            /\ GroupsOf(SubSeq(lines, n + 1, Len(lines)), Tail(paragraphs))

(* C2: the lines wrapLines returns are one group per paragraph of the     *)
(* text, in order: the one line " " for a paragraph with no non-space      *)
(* character, and otherwise lines none of which is blank and whose         *)
(* non-space characters are, in order, those of the paragraph.             *)
LinesGroupByParagraph == wpc = "done" => GroupsOf(wlines, SplitNl(wtext))

====
